---- MODULE Spec2Model ----
(***************************************************************************)
(* AwesomeGIC Bank (src/bank_system.py): the in-memory ledger service.     *)
(*                                                                         *)
(* State: BankingSystem.accounts, .interest_rules, .transaction_counters,  *)
(* and the value the last request returned (or the exception it raised).   *)
(* One action per request: input_transaction, define_interest_rule,        *)
(* print_statement.                                                        *)
(*                                                                         *)
(* Representation.                                                         *)
(*  - A request line is the tuple of its whitespace-separated fields       *)
(*    (str.split()); a date or year-month field is a tuple of characters.  *)
(*  - A stored date is an 8-character digit string; the model keeps the    *)
(*    number its digits spell.  Python compares the strings lexically,     *)
(*    which on digit strings of equal length is the numeric order.         *)
(*  - Decimal(text) is the record [neg, coef, exp] of Decimal.as_tuple();  *)
(*    an unparsable text is the record NotADecimal.                        *)
(*  - A stored amount is a whole number of cents, a stored rate a whole    *)
(*    number of hundredths of a percent (the request lines below carry at  *)
(*    most two fractional digits in a rate).                               *)
(*  - The accrual is computed as Python's decimal module computes it:      *)
(*    every division and addition is rounded to DecimalPrec significant    *)
(*    digits, half to even.                                                *)
(***************************************************************************)
EXTENDS Integers, Sequences, FiniteSets, TLC

VARIABLES accounts, interest_rules, transaction_counters, result

vars == <<accounts, interest_rules, transaction_counters, result>>

----------------------------------------------------------------------------
(* Bounds of the model.                                                    *)

\* Largest number of entries the ledgers hold, all accounts together.
MaxEntries == 3

----------------------------------------------------------------------------
(* Characters, integers and dates.                                         *)

DigitChars == <<"0", "1", "2", "3", "4", "5", "6", "7", "8", "9">>

IsDigitChar(c) == \E i \in 1..10 : DigitChars[i] = c

DigitVal(c) == (CHOOSE i \in 1..10 : DigitChars[i] = c) - 1

\* str.isdigit() / re.match(r'^\d{n}$') on a tuple of characters.
isdigit(s) == Len(s) > 0 /\ \A i \in 1..Len(s) : IsDigitChar(s[i])

\* int(s) for a digit string s.
RECURSIVE int(_)
int(s) == IF Len(s) = 0 THEN 0
          ELSE 10 * int(SubSeq(s, 1, Len(s) - 1)) + DigitVal(s[Len(s)])

\* The decimal digits of n, most significant first.
RECURSIVE DecDigits(_)
DecDigits(n) == IF n < 10 THEN <<n>> ELSE Append(DecDigits(n \div 10), n % 10)

NumDigits(n) ==
    IF n < 10 THEN 1 ELSE IF n < 100 THEN 2 ELSE IF n < 1000 THEN 3
    ELSE IF n < 10000 THEN 4 ELSE IF n < 100000 THEN 5
    ELSE IF n < 1000000 THEN 6 ELSE IF n < 10000000 THEN 7
    ELSE IF n < 100000000 THEN 8 ELSE IF n < 1000000000 THEN 9 ELSE 10

\* format(n, "02d"): at least two digits, zero-padded.
Format02d(n) == IF n < 10 THEN <<0, n>> ELSE DecDigits(n)

IsLeap(y) == (y % 4 = 0 /\ y % 100 # 0) \/ y % 400 = 0

\* The number of days of month m of year y (datetime's calendar).
DaysInMonth(y, m) ==
    IF m = 2 THEN (IF IsLeap(y) THEN 29 ELSE 28)
    ELSE IF m \in {4, 6, 9, 11} THEN 30 ELSE 31

\* datetime(y, m, d) is defined; otherwise the constructor raises ValueError.
IsDateTime(y, m, d) ==
    /\ y \in 1..9999
    /\ m \in 1..12
    /\ d \in 1..DaysInMonth(y, m)

\* strftime('%Y%m%d') of datetime(y, m, d), as the number its digits spell.
DateStr(y, m, d) == y * 10000 + m * 100 + d

\* validate_date with the pattern alone, the calendar not consulted.
validate_date_pattern_only(date_str) ==
    /\ Len(date_str) = 8
    /\ isdigit(date_str)

validate_date(date_str) ==
    /\ Len(date_str) = 8
    /\ isdigit(date_str)
    /\ IsDateTime(int(SubSeq(date_str, 1, 4)),
                  int(SubSeq(date_str, 5, 6)),
                  int(SubSeq(date_str, 7, 8)))

----------------------------------------------------------------------------
(* Decimal texts.                                                          *)

NotADecimal == [neg |-> FALSE, coef |-> 0, exp |-> 1000]

Dec(neg, coef, exp) == [neg |-> neg, coef |-> coef, exp |-> exp]

IsDecimal(t) == t # NotADecimal

\* validate_amount with < 0 for <= 0: an amount of zero passes.
validate_amount_allows_zero(amount_str) ==
    /\ IsDecimal(amount_str)
    /\ ~amount_str.neg
    /\ ~(amount_str.exp < -2)

validate_amount(amount_str) ==
    /\ IsDecimal(amount_str)
    /\ ~(amount_str.neg \/ amount_str.coef = 0)
    /\ ~(amount_str.exp < -2)

\* The value of a Decimal with exp >= -2, in hundredths.
Hundredths(t) == (IF t.neg THEN -1 ELSE 1) * t.coef * 10^(t.exp + 2)

----------------------------------------------------------------------------
(* Transaction, InterestRule, Account.                                     *)

\* The id of an entry that has none (txn_id = "").
BlankId == <<>>

Transaction(date, account, txn_type, amount, txn_id) ==
    [date |-> date, account |-> account, txn_type |-> txn_type,
     amount |-> amount, txn_id |-> txn_id]

InterestRule(date, rule_id, rate) ==
    [date |-> date, rule_id |-> rule_id, rate |-> rate]

Account(account_id) ==
    [account_id |-> account_id, transactions |-> <<>>, balance |-> 0]

\* add_transaction with the branch for 'I' lost: interest is appended but
\* not added to the balance.
add_transaction_interest_not_added(acc, transaction) ==
    IF transaction.txn_type = "W" /\ acc.balance < transaction.amount
    THEN [raised |-> TRUE, acc |-> acc]
    ELSE [raised |-> FALSE,
          acc |-> [acc EXCEPT
                    !.balance =
                        IF transaction.txn_type = "W"
                        THEN @ - transaction.amount
                        ELSE IF transaction.txn_type = "D"
                             THEN @ + transaction.amount
                             ELSE @,
                    !.transactions = Append(@, transaction)]]

\* add_transaction with <= for <: a withdrawal of the whole balance raises.
add_transaction_rejects_whole_balance(acc, transaction) ==
    IF transaction.txn_type = "W" /\ acc.balance <= transaction.amount
    THEN [raised |-> TRUE, acc |-> acc]
    ELSE [raised |-> FALSE,
          acc |-> [acc EXCEPT
                    !.balance =
                        IF transaction.txn_type = "W"
                        THEN @ - transaction.amount
                        ELSE @ + transaction.amount,
                    !.transactions = Append(@, transaction)]]

\* add_transaction without the balance test.
add_transaction_unchecked(acc, transaction) ==
    [raised |-> FALSE,
     acc |-> [acc EXCEPT
               !.balance =
                   IF transaction.txn_type = "W"
                   THEN @ - transaction.amount
                   ELSE @ + transaction.amount,
               !.transactions = Append(@, transaction)]]

\* Account.add_transaction: the account afterwards, and whether the call
\* raised ValueError (then the account is as it was).
add_transaction(acc, transaction) ==
    IF transaction.txn_type = "W" /\ acc.balance < transaction.amount
    THEN [raised |-> TRUE, acc |-> acc]
    ELSE [raised |-> FALSE,
          acc |-> [acc EXCEPT
                    !.balance =
                        IF transaction.txn_type = "W"
                        THEN @ - transaction.amount
                        ELSE IF transaction.txn_type \in {"D", "I"}
                             THEN @ + transaction.amount
                             ELSE @,
                    !.transactions = Append(@, transaction)]]

\* The signed amount the date-indexed sums give an entry: a withdrawal
\* subtracts, every other type adds.
Signed(transaction) ==
    IF transaction.txn_type = "W" THEN -transaction.amount
    ELSE transaction.amount

\* BalanceLoop that leaves the loop at the first entry dated after the
\* target, as if the ledger were in date order.
RECURSIVE BalanceLoop_until_later(_, _, _)
BalanceLoop_until_later(txns, n, target_date) ==
    IF n = 0 THEN 0
    ELSE IF \E i \in 1..n : txns[i].date > target_date
    THEN BalanceLoop_until_later(txns, n - 1, target_date)
    ELSE BalanceLoop_until_later(txns, n - 1, target_date) + Signed(txns[n])

\* Account.get_balance_at_date: the loop over the first n entries.
RECURSIVE BalanceLoop(_, _, _)
BalanceLoop(txns, n, target_date) ==
    IF n = 0 THEN 0
    ELSE BalanceLoop(txns, n - 1, target_date)
         + (IF txns[n].date <= target_date THEN Signed(txns[n]) ELSE 0)

get_balance_at_date(acc, target_date) ==
    BalanceLoop(acc.transactions, Len(acc.transactions), target_date)

----------------------------------------------------------------------------
(* Decimal arithmetic of the accrual.                                      *)
(*                                                                         *)
(* A Num is a non-negative number in units of 10^-6 (a balance in cents    *)
(* times a rate in hundredths of a percent, divided by 100, is that many   *)
(* millionths): ip whole units and 32 fractional digits fp, held as four   *)
(* limbs of eight digits, most significant first.                          *)

\* The precision of Python's default decimal context.
DecimalPrec == 28

\* Decimal('365'): the fixed number of days the annual rate is divided by.
DaysPerYear == 365

Limb == 10^8

Num(ip, fp) == [ip |-> ip, fp |-> fp]

Zero == Num(0, <<0, 0, 0, 0>>)

\* a + b, exactly.
AddExact(a, b) ==
    LET s4 == a.fp[4] + b.fp[4]
        s3 == a.fp[3] + b.fp[3] + s4 \div Limb
        s2 == a.fp[2] + b.fp[2] + s3 \div Limb
        s1 == a.fp[1] + b.fp[1] + s2 \div Limb
    IN  Num(a.ip + b.ip + s1 \div Limb,
            <<s1 % Limb, s2 % Limb, s3 % Limb, s4 % Limb>>)

\* The number of zeros between the point and the first non-zero digit.
LeadingZeros(fp) ==
    IF fp[1] > 0 THEN 8 - NumDigits(fp[1])
    ELSE IF fp[2] > 0 THEN 16 - NumDigits(fp[2])
    ELSE IF fp[3] > 0 THEN 24 - NumDigits(fp[3])
    ELSE IF fp[4] > 0 THEN 32 - NumDigits(fp[4])
    ELSE 32

\* The fractional digits a coefficient of DecimalPrec digits keeps of v.
KeptFracDigits(v) ==
    IF v.ip > 0 THEN DecimalPrec - NumDigits(v.ip)
    ELSE DecimalPrec + LeadingZeros(v.fp)

\* v, followed by further digits that are not all zero when sticky holds,
\* rounded to DecimalPrec significant digits, half to even
\* (the context's ROUND_HALF_EVEN).
RoundToPrec(v, sticky) ==
    LET k == KeptFracDigits(v)
    IN  IF k >= 32 THEN v
        ELSE LET j == k \div 8 + 1
                 m == 10^(8 * j - k)
                 t == v.fp[j] % m
                 rest == sticky \/ \E i \in (j + 1)..4 : v.fp[i] # 0
                 lastOdd == IF m < Limb THEN (v.fp[j] \div m) % 2 = 1
                            ELSE IF j = 1 THEN v.ip % 2 = 1
                            ELSE v.fp[j - 1] % 2 = 1
                 up == 2 * t > m \/ (2 * t = m /\ (rest \/ lastOdd))
                 kept == Num(v.ip, [i \in 1..4 |->
                                      IF i < j THEN v.fp[i]
                                      ELSE IF i = j THEN v.fp[j] - t ELSE 0])
                 ulp == Num(0, [i \in 1..4 |-> IF i = j THEN m ELSE 0])
             IN  IF up THEN AddExact(kept, ulp) ELSE kept

\* Decimal.__add__ under the default context.
DecAdd(a, b) == RoundToPrec(AddExact(a, b), FALSE)

\* Four more digits of the quotient r / 365, and the remainder left.
DivStep(r) ==
    [q |-> (r * 10000) \div DaysPerYear, r |-> (r * 10000) % DaysPerYear]

\* Eight more digits of the quotient: one limb.
DivLimb(r) ==
    LET a == DivStep(r)
        b == DivStep(a.r)
    IN  [q |-> a.q * 10000 + b.q, r |-> b.r]

\* Decimal.__truediv__ by Decimal('365') under the default context.
DivideByDays(p) ==
    LET l1 == DivLimb(p % DaysPerYear)
        l2 == DivLimb(l1.r)
        l3 == DivLimb(l2.r)
        l4 == DivLimb(l3.r)
    IN  RoundToPrec(Num(p \div DaysPerYear, <<l1.q, l2.q, l3.q, l4.q>>),
                    l4.r # 0)

\* eod_balance * applicable_rate / Decimal('100') / Decimal('365'):
\* the product and the division by 100 are exact.
DailyInterest(eod_balance, applicable_rate) ==
    DivideByDays(eod_balance * applicable_rate)

\* quantize(Decimal('0.01'), rounding=ROUND_HALF_UP), in cents.
Quantize(v) ==
    v.ip \div 10000 + (IF v.ip % 10000 >= 5000 THEN 1 ELSE 0)

\* The rate the loop over the first n rules leaves in applicable_rate:
\* the last rule of the list dated on or before date_str, else 0.
RECURSIVE RateLoop(_, _, _)
RateLoop(rules, n, date_str) ==
    IF n = 0 THEN 0
    ELSE IF rules[n].date <= date_str THEN rules[n].rate
    ELSE RateLoop(rules, n - 1, date_str)

\* The while loop of calculate_interest from day d to last_day, entered
\* with total_interest = total.  (The test on the new total only makes TLC
\* compute it day by day instead of nesting thirty pending sums.)
RECURSIVE AccrueLoop(_, _, _, _, _, _, _)
AccrueLoop(acc, rules, year, month, d, last_day, total) ==
    IF d > last_day THEN total
    ELSE LET date_str == DateStr(year, month, d)
             eod_balance == get_balance_at_date(acc, date_str)
             applicable_rate == RateLoop(rules, Len(rules), date_str)
             total_interest ==
                 IF eod_balance > 0 /\ applicable_rate > 0
                 THEN DecAdd(total,
                             DailyInterest(eod_balance, applicable_rate))
                 ELSE total
         IN  IF total_interest.ip >= 0
             THEN AccrueLoop(acc, rules, year, month, d + 1, last_day,
                             total_interest)
             ELSE Zero

\* The month's interest in cents, for a month datetime accepts.
MonthInterest(acc, rules, year, month) ==
    Quantize(AccrueLoop(acc, rules, year, month, 1,
                        DaysInMonth(year, month), Zero))

----------------------------------------------------------------------------
(* What a request gives back.                                              *)

\* The request op(parts) returned text: an error message, or (error = "")
\* a report whose lines after the header are rows.  interest is the amount
\* calculate_interest gave a statement, in cents.
Returned(op, parts, error, rows, interest) ==
    [op |-> op, request |-> parts, raised |-> FALSE, error |-> error,
     rows |-> rows, interest |-> interest]

\* The request ended in an exception that left the method.
Raised(op, parts, exception) ==
    [op |-> op, request |-> parts, raised |-> TRUE, error |-> exception,
     rows |-> <<>>, interest |-> 0]

Failed(op, parts, error) == Returned(op, parts, error, <<>>, 0)

\* str.upper() of a one-letter type field.
upper(c) == IF c = "d" THEN "D" ELSE IF c = "w" THEN "W" ELSE c

----------------------------------------------------------------------------
(* BankingSystem.                                                          *)

\* NextCounter without the increment of a counter that exists.
NextCounter_not_incremented(date) ==
    IF date \in DOMAIN transaction_counters
    THEN transaction_counters[date]
    ELSE 1

\* The counter generate_transaction_id leaves for date.
NextCounter(date) ==
    IF date \in DOMAIN transaction_counters
    THEN transaction_counters[date] + 1
    ELSE 1

\* generate_transaction_id: f"{date}-{counter:02d}", the date kept as its
\* number and the counter as its digits.
generate_transaction_id(date) ==
    <<date, "-">> \o Format02d(NextCounter(date))

\* get_account_statement: one row per entry of the ledger, in ledger order.
get_account_statement(acc) ==
    [i \in 1..Len(acc.transactions) |->
        [date |-> acc.transactions[i].date,
         txn_id |-> acc.transactions[i].txn_id,
         txn_type |-> acc.transactions[i].txn_type,
         amount |-> acc.transactions[i].amount]]

\* get_interest_rules_display: one row per rule, in list order.
get_interest_rules_display(rules) == rules

\* The date field of a line, as stored.
DateOf(date_str) == int(date_str)

\* The account map rebuilt with the one account in it.
WithAccount_alone(account, acc) == [a \in {account} |-> acc]

\* accounts with account bound to acc.
WithAccount(account, acc) ==
    [a \in DOMAIN accounts \cup {account} |->
        IF a = account THEN acc ELSE accounts[a]]

\* The number of entries of the accounts in ids, all together.
RECURSIVE CountEntries(_)
CountEntries(ids) ==
    IF ids = {} THEN 0
    ELSE LET a == CHOOSE x \in ids : TRUE
         IN  Len(accounts[a].transactions) + CountEntries(ids \ {a})

NumEntries == CountEntries(DOMAIN accounts)

\* input_transaction with the type tested before the date.
input_transaction_type_first(parts) ==
    LET op == "input_transaction"
        NoChange == UNCHANGED <<accounts, interest_rules, transaction_counters>>
    IN
    IF Len(parts) # 4
    THEN /\ result' = Failed(op, parts, "Invalid format. Expected: <Date> <Account> <Type> <Amount>")
         /\ NoChange
    ELSE
    LET date_str == parts[1]
        account == parts[2]
        txn_type == upper(parts[3])
        amount_str == parts[4]
    IN
    IF txn_type \notin {"D", "W"}
    THEN /\ result' = Failed(op, parts, "Invalid transaction type. Use D for depositt or W for withdrawal")
         /\ NoChange
    ELSE IF ~validate_date(date_str)
    THEN /\ result' = Failed(op, parts, "Invalid format. Use YYYYMMDD")
         /\ NoChange
    ELSE IF ~validate_amount(amount_str)
    THEN /\ result' = Failed(op, parts, "Invalid amount, Must be positive with max 2 decimal places")
         /\ NoChange
    ELSE IF account \notin DOMAIN accounts /\ txn_type = "W"
    THEN /\ result' = Failed(op, parts, "Cannot withdraw from new account with zero balance")
         /\ NoChange
    ELSE
    LET date == DateOf(date_str)
        amount == Hundredths(amount_str)
        acc == IF account \in DOMAIN accounts THEN accounts[account]
               ELSE Account(account)
    IN
    IF txn_type = "W" /\ acc.balance < amount
    THEN /\ result' = Failed(op, parts, "Insufficient balance for withdrawal")
         /\ NoChange
    ELSE
    LET txn_id == generate_transaction_id(date)
        transaction == Transaction(date, account, txn_type, amount, txn_id)
        added == add_transaction(acc, transaction)
    IN  /\ NumEntries < MaxEntries
        /\ transaction_counters' =
              [d \in DOMAIN transaction_counters \cup {date} |->
                  IF d = date THEN NextCounter(date)
                  ELSE transaction_counters[d]]
        /\ UNCHANGED interest_rules
        /\ accounts' = WithAccount(account, added.acc)
        /\ result' = Returned(op, parts, "", get_account_statement(added.acc), 0)

\* input_transaction without the refusal of a withdrawal from an account
\* that does not exist: the account is created and the balance test refuses.
input_transaction_creates_account(parts) ==
    LET op == "input_transaction"
        NoChange == UNCHANGED <<accounts, interest_rules, transaction_counters>>
    IN
    IF Len(parts) # 4
    THEN /\ result' = Failed(op, parts, "Invalid format. Expected: <Date> <Account> <Type> <Amount>")
         /\ NoChange
    ELSE
    LET date_str == parts[1]
        account == parts[2]
        txn_type == upper(parts[3])
        amount_str == parts[4]
    IN
    IF ~validate_date(date_str)
    THEN /\ result' = Failed(op, parts, "Invalid format. Use YYYYMMDD")
         /\ NoChange
    ELSE IF txn_type \notin {"D", "W"}
    THEN /\ result' = Failed(op, parts, "Invalid transaction type. Use D for depositt or W for withdrawal")
         /\ NoChange
    ELSE IF ~validate_amount(amount_str)
    THEN /\ result' = Failed(op, parts, "Invalid amount, Must be positive with max 2 decimal places")
         /\ NoChange
    ELSE
    LET date == DateOf(date_str)
        amount == Hundredths(amount_str)
        acc == IF account \in DOMAIN accounts THEN accounts[account]
               ELSE Account(account)
    IN
    IF txn_type = "W" /\ acc.balance < amount
    THEN /\ result' = Failed(op, parts, "Insufficient balance for withdrawal")
         /\ accounts' = WithAccount(account, acc)
         /\ UNCHANGED <<interest_rules, transaction_counters>>
    ELSE
    LET txn_id == generate_transaction_id(date)
        transaction == Transaction(date, account, txn_type, amount, txn_id)
        added == add_transaction(acc, transaction)
    IN  /\ NumEntries < MaxEntries
        /\ transaction_counters' =
              [d \in DOMAIN transaction_counters \cup {date} |->
                  IF d = date THEN NextCounter(date)
                  ELSE transaction_counters[d]]
        /\ UNCHANGED interest_rules
        /\ accounts' = WithAccount(account, added.acc)
        /\ result' = Returned(op, parts, "", get_account_statement(added.acc), 0)

\* BankingSystem.input_transaction on the fields of input_line.
input_transaction(parts) ==
    LET op == "input_transaction"
        NoChange == UNCHANGED <<accounts, interest_rules, transaction_counters>>
    IN
    IF Len(parts) # 4
    THEN /\ result' = Failed(op, parts, "Invalid format. Expected: <Date> <Account> <Type> <Amount>")
         /\ NoChange
    ELSE
    LET date_str == parts[1]
        account == parts[2]
        txn_type == upper(parts[3])
        amount_str == parts[4]
    IN
    IF ~validate_date(date_str)
    THEN /\ result' = Failed(op, parts, "Invalid format. Use YYYYMMDD")
         /\ NoChange
    ELSE IF txn_type \notin {"D", "W"}
    THEN /\ result' = Failed(op, parts, "Invalid transaction type. Use D for depositt or W for withdrawal")
         /\ NoChange
    ELSE IF ~validate_amount(amount_str)
    THEN /\ result' = Failed(op, parts, "Invalid amount, Must be positive with max 2 decimal places")
         /\ NoChange
    ELSE IF account \notin DOMAIN accounts /\ txn_type = "W"
    THEN /\ result' = Failed(op, parts, "Cannot withdraw from new account with zero balance")
         /\ NoChange
    ELSE
    LET date == DateOf(date_str)
        amount == Hundredths(amount_str)
        acc == IF account \in DOMAIN accounts THEN accounts[account]
               ELSE Account(account)
    IN
    IF txn_type = "W" /\ acc.balance < amount
    THEN /\ result' = Failed(op, parts, "Insufficient balance for withdrawal")
         /\ NoChange
    ELSE
    LET txn_id == generate_transaction_id(date)
        transaction == Transaction(date, account, txn_type, amount, txn_id)
        added == add_transaction(acc, transaction)
    IN  /\ NumEntries < MaxEntries
        /\ transaction_counters' =
              [d \in DOMAIN transaction_counters \cup {date} |->
                  IF d = date THEN NextCounter(date)
                  ELSE transaction_counters[d]]
        /\ UNCHANGED interest_rules
        /\ IF added.raised
           THEN /\ accounts' = WithAccount(account, acc)
                /\ result' = Raised(op, parts, "ValueError")
           ELSE /\ accounts' = WithAccount(account, added.acc)
                /\ result' = Returned(op, parts, "", get_account_statement(added.acc), 0)

\* list.sort(key=lambda x: x.date): a stable sort by date, as insertion of
\* each rule after the rules dated on or before it.
RECURSIVE InsertByDate(_, _)
InsertByDate(sorted, rule) ==
    IF Len(sorted) = 0 THEN <<rule>>
    ELSE IF sorted[Len(sorted)].date <= rule.date THEN Append(sorted, rule)
    ELSE Append(InsertByDate(SubSeq(sorted, 1, Len(sorted) - 1), rule),
                sorted[Len(sorted)])

\* The sort lost: the rules stay in the order they were defined.
SortByDate_not_sorted(rules) == rules

RECURSIVE SortByDate(_)
SortByDate(rules) ==
    IF Len(rules) = 0 THEN <<>>
    ELSE InsertByDate(SortByDate(SubSeq(rules, 1, Len(rules) - 1)),
                      rules[Len(rules)])

\* The filter with < for !=: the rules dated after the date go as well.
RECURSIVE WithoutDate_keeps_earlier(_, _)
WithoutDate_keeps_earlier(rules, date) ==
    IF Len(rules) = 0 THEN <<>>
    ELSE LET rest == WithoutDate_keeps_earlier(SubSeq(rules, 1, Len(rules) - 1), date)
         IN  IF rules[Len(rules)].date < date
             THEN Append(rest, rules[Len(rules)])
             ELSE rest

\* [rule for rule in rules if rule.date != date]
RECURSIVE WithoutDate(_, _)
WithoutDate(rules, date) ==
    IF Len(rules) = 0 THEN <<>>
    ELSE LET rest == WithoutDate(SubSeq(rules, 1, Len(rules) - 1), date)
         IN  IF rules[Len(rules)].date # date
             THEN Append(rest, rules[Len(rules)])
             ELSE rest

\* Upsert without the removal of the rule already stored for the date.
Upsert_keeps_old(rules, new_rule) == SortByDate(Append(rules, new_rule))

\* The timeline after the three statements that store a valid rule.
Upsert(rules, new_rule) ==
    SortByDate(Append(WithoutDate(rules, new_rule.date), new_rule))

\* define_interest_rule with > 100 for >= 100: a rate of 100 is stored.
define_interest_rule_allows_100(parts) ==
    LET op == "define_interest_rule"
        NoChange == UNCHANGED <<accounts, interest_rules, transaction_counters>>
    IN
    IF Len(parts) # 3
    THEN /\ result' = Failed(op, parts, "Invalid format. Expected: <Date> <RuleId> <Rate in %>")
         /\ NoChange
    ELSE
    LET date_str == parts[1]
        rule_id == parts[2]
        rate_str == parts[3]
    IN
    IF ~validate_date(date_str)
    THEN /\ result' = Failed(op, parts, "Invalid date format. Use YYYYMMDD")
         /\ NoChange
    ELSE IF ~IsDecimal(rate_str)
    THEN /\ result' = Failed(op, parts, "Invalid rate format")
         /\ NoChange
    ELSE IF (rate_str.neg \/ rate_str.coef = 0) \/ Hundredths(rate_str) > 100 * 100
    THEN /\ result' = Failed(op, parts, "Interest rate must be between 0 and 100")
         /\ NoChange
    ELSE
    LET new_rule == InterestRule(DateOf(date_str), rule_id, Hundredths(rate_str))
    IN  /\ interest_rules' = Upsert(interest_rules, new_rule)
        /\ UNCHANGED <<accounts, transaction_counters>>
        /\ result' = Returned(op, parts, "",
                              get_interest_rules_display(interest_rules'), 0)

\* BankingSystem.define_interest_rule on the fields of input_line.
define_interest_rule(parts) ==
    LET op == "define_interest_rule"
        NoChange == UNCHANGED <<accounts, interest_rules, transaction_counters>>
    IN
    IF Len(parts) # 3
    THEN /\ result' = Failed(op, parts, "Invalid format. Expected: <Date> <RuleId> <Rate in %>")
         /\ NoChange
    ELSE
    LET date_str == parts[1]
        rule_id == parts[2]
        rate_str == parts[3]
    IN
    IF ~validate_date(date_str)
    THEN /\ result' = Failed(op, parts, "Invalid date format. Use YYYYMMDD")
         /\ NoChange
    ELSE IF ~IsDecimal(rate_str)
    THEN /\ result' = Failed(op, parts, "Invalid rate format")
         /\ NoChange
    ELSE IF (rate_str.neg \/ rate_str.coef = 0) \/ Hundredths(rate_str) >= 100 * 100
    THEN /\ result' = Failed(op, parts, "Interest rate must be between 0 and 100")
         /\ NoChange
    ELSE
    LET new_rule == InterestRule(DateOf(date_str), rule_id, Hundredths(rate_str))
    IN  /\ interest_rules' = Upsert(interest_rules, new_rule)
        /\ UNCHANGED <<accounts, transaction_counters>>
        /\ result' = Returned(op, parts, "",
                              get_interest_rules_display(interest_rules'), 0)

\* calculate_interest behind a guard: nothing for a month whose interest
\* the ledger already holds.
calculate_interest_once(account, year_month) ==
    IF account \notin DOMAIN accounts THEN [raised |-> FALSE, value |-> 0]
    ELSE LET year == int(SubSeq(year_month, 1, 4))
             month == int(SubSeq(year_month, 5, Len(year_month)))
             txns == accounts[account].transactions
         IN  IF ~IsDateTime(year, month, 1)
             THEN [raised |-> TRUE, value |-> 0]
             ELSE IF \E i \in 1..Len(txns) :
                        /\ txns[i].txn_type = "I"
                        /\ txns[i].date \div 100 = int(year_month)
             THEN [raised |-> FALSE, value |-> 0]
             ELSE [raised |-> FALSE,
                   value |-> MonthInterest(accounts[account], interest_rules,
                                           year, month)]

\* BankingSystem.calculate_interest: the amount in cents, or the ValueError
\* datetime raises for a year or month outside its calendar.
calculate_interest(account, year_month) ==
    IF account \notin DOMAIN accounts THEN [raised |-> FALSE, value |-> 0]
    ELSE LET year == int(SubSeq(year_month, 1, 4))
             month == int(SubSeq(year_month, 5, Len(year_month)))
         IN  IF ~IsDateTime(year, month, 1)
                \/ ~IsDateTime(IF month = 12 THEN year + 1 ELSE year,
                               IF month = 12 THEN 1 ELSE month + 1, 1)
             THEN [raised |-> TRUE, value |-> 0]
             ELSE [raised |-> FALSE,
                   value |-> MonthInterest(accounts[account], interest_rules,
                                           year, month)]

\* last_day_str with the subtraction of one day lost: the first day of the
\* next month.
last_day_str_next_month(year, month) ==
    IF month = 12 THEN DateStr(year + 1, 1, 1) ELSE DateStr(year, month + 1, 1)

\* print_statement's last_day_str: the day before the first day of the
\* next month.
last_day_str(year, month) == DateStr(year, month, DaysInMonth(year, month))

\* CarriedLoop that counts deposits and withdrawals only: interest posted
\* by earlier statements is left out of the carried balance.
RECURSIVE CarriedLoop_without_interest(_, _, _)
CarriedLoop_without_interest(txns, n, first_day) ==
    IF n = 0 THEN 0
    ELSE CarriedLoop_without_interest(txns, n - 1, first_day)
         + (IF txns[n].date < first_day /\ txns[n].txn_type # "I"
            THEN Signed(txns[n]) ELSE 0)

\* The first loop of print_statement over the first n entries: the balance
\* of the entries dated before first_day.
RECURSIVE CarriedLoop(_, _, _)
CarriedLoop(txns, n, first_day) ==
    IF n = 0 THEN 0
    ELSE CarriedLoop(txns, n - 1, first_day)
         + (IF txns[n].date < first_day THEN Signed(txns[n]) ELSE 0)

\* transaction.date.startswith(year_month), both digit strings.
startswith(date, year_month) ==
    date \div 10^(8 - Len(year_month)) = int(year_month)

\* MonthLoop that starts the running balance at 0 instead of the balance
\* carried into the month.
RECURSIVE MonthLoop_no_carry(_, _, _, _)
MonthLoop_no_carry(txns, n, year_month, carried) ==
    IF n = 0 THEN [rows |-> <<>>, running_balance |-> 0]
    ELSE LET before == MonthLoop_no_carry(txns, n - 1, year_month, carried)
         IN  IF startswith(txns[n].date, year_month)
             THEN LET balance == before.running_balance + Signed(txns[n])
                  IN  [rows |-> Append(before.rows,
                                       [date |-> txns[n].date,
                                        txn_id |-> txns[n].txn_id,
                                        txn_type |-> txns[n].txn_type,
                                        amount |-> txns[n].amount,
                                        balance |-> balance]),
                       running_balance |-> balance]
             ELSE before

\* The second loop of print_statement over the first n entries:
\* month_transactions and running_balance after them.
RECURSIVE MonthLoop(_, _, _, _)
MonthLoop(txns, n, year_month, carried) ==
    IF n = 0 THEN [rows |-> <<>>, running_balance |-> carried]
    ELSE LET before == MonthLoop(txns, n - 1, year_month, carried)
         IN  IF startswith(txns[n].date, year_month)
             THEN LET balance == before.running_balance + Signed(txns[n])
                  IN  [rows |-> Append(before.rows,
                                       [date |-> txns[n].date,
                                        txn_id |-> txns[n].txn_id,
                                        txn_type |-> txns[n].txn_type,
                                        amount |-> txns[n].amount,
                                        balance |-> balance]),
                       running_balance |-> balance]
             ELSE before

\* print_statement with >= 0 for > 0: interest of 0.00 is posted too.
print_statement_posts_zero(parts) ==
    LET op == "print_statement"
        NoChange == UNCHANGED <<accounts, interest_rules, transaction_counters>>
    IN
    IF Len(parts) # 2
    THEN /\ result' = Failed(op, parts, "Invalid format. Expected: <Account> <Year><Month>")
         /\ NoChange
    ELSE
    LET account == parts[1]
        year_month == parts[2]
    IN
    IF Len(year_month) # 6 \/ ~isdigit(year_month)
    THEN /\ result' = Failed(op, parts, "Invalid year-month format. Use YYYYMM")
         /\ NoChange
    ELSE IF account \notin DOMAIN accounts
    THEN /\ result' = Failed(op, parts, "Account not found")
         /\ NoChange
    ELSE
    LET year == int(SubSeq(year_month, 1, 4))
        month == int(SubSeq(year_month, 5, 6))
        acc == accounts[account]
        first_day == year * 10000 + month * 100 + 1
        carried == CarriedLoop(acc.transactions, Len(acc.transactions), first_day)
        walked == MonthLoop(acc.transactions, Len(acc.transactions),
                            year_month, carried)
        interest == calculate_interest(account, year_month)
    IN
    IF interest.raised
    THEN /\ result' = Raised(op, parts, "ValueError")
         /\ NoChange
    ELSE IF interest.value >= 0
    THEN LET last_day == last_day_str(year, month)
             final_balance == walked.running_balance + interest.value
             interest_txn == Transaction(last_day, account, "I",
                                         interest.value, BlankId)
             added == add_transaction(acc, interest_txn)
         IN  /\ NumEntries < MaxEntries
             /\ accounts' = WithAccount(account, added.acc)
             /\ UNCHANGED <<interest_rules, transaction_counters>>
             /\ result' = Returned(op, parts, "",
                                   Append(walked.rows,
                                          [date |-> last_day,
                                           txn_id |-> BlankId,
                                           txn_type |-> "I",
                                           amount |-> interest.value,
                                           balance |-> final_balance]),
                                   interest.value)
    ELSE /\ result' = Returned(op, parts, "", walked.rows, interest.value)
         /\ NoChange

\* BankingSystem.print_statement on the fields of input_line.
print_statement(parts) ==
    LET op == "print_statement"
        NoChange == UNCHANGED <<accounts, interest_rules, transaction_counters>>
    IN
    IF Len(parts) # 2
    THEN /\ result' = Failed(op, parts, "Invalid format. Expected: <Account> <Year><Month>")
         /\ NoChange
    ELSE
    LET account == parts[1]
        year_month == parts[2]
    IN
    IF Len(year_month) # 6 \/ ~isdigit(year_month)
    THEN /\ result' = Failed(op, parts, "Invalid year-month format. Use YYYYMM")
         /\ NoChange
    ELSE IF account \notin DOMAIN accounts
    THEN /\ result' = Failed(op, parts, "Account not found")
         /\ NoChange
    ELSE
    LET year == int(SubSeq(year_month, 1, 4))
        month == int(SubSeq(year_month, 5, 6))
        acc == accounts[account]
        first_day == year * 10000 + month * 100 + 1
        carried == CarriedLoop(acc.transactions, Len(acc.transactions), first_day)
        walked == MonthLoop(acc.transactions, Len(acc.transactions),
                            year_month, carried)
        interest == calculate_interest(account, year_month)
    IN
    IF interest.raised
    THEN /\ result' = Raised(op, parts, "ValueError")
         /\ NoChange
    ELSE IF interest.value > 0
    THEN LET last_day == last_day_str(year, month)
             final_balance == walked.running_balance + interest.value
             interest_txn == Transaction(last_day, account, "I",
                                         interest.value, BlankId)
             added == add_transaction(acc, interest_txn)
         IN  /\ NumEntries < MaxEntries
             /\ accounts' = WithAccount(account, added.acc)
             /\ UNCHANGED <<interest_rules, transaction_counters>>
             /\ result' = Returned(op, parts, "",
                                   Append(walked.rows,
                                          [date |-> last_day,
                                           txn_id |-> BlankId,
                                           txn_type |-> "I",
                                           amount |-> interest.value,
                                           balance |-> final_balance]),
                                   interest.value)
    ELSE /\ result' = Returned(op, parts, "", walked.rows, interest.value)
         /\ NoChange

----------------------------------------------------------------------------
(* The request lines the operator may enter.                               *)

\* The text of a sequence of digits.
Text(digits) == [i \in 1..Len(digits) |-> DigitChars[digits[i] + 1]]

D20230101 == Text(<<2, 0, 2, 3, 0, 1, 0, 1>>)
D20230601 == Text(<<2, 0, 2, 3, 0, 6, 0, 1>>)
D20230602 == Text(<<2, 0, 2, 3, 0, 6, 0, 2>>)
D20230615 == Text(<<2, 0, 2, 3, 0, 6, 1, 5>>)

\* "0.09", "6.20", "1.00", "2.20"
Amt009 == Dec(FALSE, 9, -2)
Amt620 == Dec(FALSE, 620, -2)
Rate100 == Dec(FALSE, 100, -2)
Rate220 == Dec(FALSE, 220, -2)

TransactionLines ==
    { <<D20230601, "AC001", "D", Amt009>>,
      <<D20230602, "AC001", "D", Amt620>>,
      <<D20230602, "AC001", "W", Amt009>>,
      <<D20230601, "AC002", "d", Amt620>> }

RuleLines ==
    { <<D20230101, "RULE01", Rate100>>,
      <<D20230101, "RULE02", Rate220>>,
      <<D20230615, "RULE03", Rate220>> }

StatementLines ==
    { <<"AC001", Text(<<2, 0, 2, 3, 0, 6>>)>>,
      <<"AC001", Text(<<2, 0, 2, 3, 0, 7>>)>>,
      <<"AC001", Text(<<2, 0, 2, 3, 1, 3>>)>> }

----------------------------------------------------------------------------
(* The service.                                                            *)

\* BankingSystem.__init__; nothing has been returned yet.
Init ==
    /\ accounts = <<>>
    /\ interest_rules = <<>>
    /\ transaction_counters = <<>>
    /\ result = Returned("__init__", <<>>, "", <<>>, 0)

InputTransaction == \E parts \in TransactionLines : input_transaction(parts)

DefineInterestRule == \E parts \in RuleLines : define_interest_rule(parts)

PrintStatement == \E parts \in StatementLines : print_statement(parts)

Next == InputTransaction \/ DefineInterestRule \/ PrintStatement

Spec == Init /\ [][Next]_vars

----------------------------------------------------------------------------
(* The service under request lines that fail its checks.                   *)

\* 29 and 30 February 2024, 31 June 2023, and a token of seven digits.
D20240229 == Text(<<2, 0, 2, 4, 0, 2, 2, 9>>)
D20240230 == Text(<<2, 0, 2, 4, 0, 2, 3, 0>>)
D20230631 == Text(<<2, 0, 2, 3, 0, 6, 3, 1>>)
D2023060 == Text(<<2, 0, 2, 3, 0, 6, 0>>)

\* "100.00", "0", "-5", "100.123", "abc"
Amt10000 == Dec(FALSE, 10000, -2)
Amt0 == Dec(FALSE, 0, 0)
AmtMinus5 == Dec(TRUE, 5, 0)
Amt100123 == Dec(FALSE, 100123, -3)
Abc == NotADecimal

\* "99.99", "0.01", "100", "-1"
Rate9999 == Dec(FALSE, 9999, -2)
Rate001 == Dec(FALSE, 1, -2)
Rate100pc == Dec(FALSE, 100, 0)
RateMinus1 == Dec(TRUE, 1, 0)

CheckedTransactionLines ==
    { <<D20240229, "AC001", "D", Amt10000>>,
      <<D20230601, "AC001", "W", Amt10000>>,
      <<D20230601, "AC009", "W", Amt10000>>,
      <<D20230601, "AC001", "D">>,
      <<D20230631, "AC001", "X", Amt0, "AC001">>,
      <<D20230631, "AC001", "X", Amt10000>>,
      <<D20230631, "AC009", "W", Amt0>>,
      <<D20240230, "AC001", "D", Amt10000>>,
      <<D2023060, "AC001", "D", Amt10000>>,
      <<D20230601, "AC001", "X", Amt0>>,
      <<D20230601, "AC009", "W", Amt100123>>,
      <<D20230601, "AC001", "D", Amt0>>,
      <<D20230601, "AC001", "D", AmtMinus5>>,
      <<D20230601, "AC001", "D", Amt100123>>,
      <<D20230601, "AC001", "D", Abc>> }

CheckedRuleLines ==
    { <<D20240229, "RULE01", Rate9999>>,
      <<D20230601, "RULE02", Rate001>>,
      <<D20230601, "RULE03", Amt0>>,
      <<D20230601, "RULE03", Rate100pc>>,
      <<D20230601, "RULE03", RateMinus1>>,
      <<D20230601, "RULE03", Abc>>,
      <<D20240230, "RULE03", Rate9999>>,
      <<D20230601, "RULE03">> }

CheckedStatementLines ==
    { <<"AC001", Text(<<2, 0, 2, 4, 0, 2>>)>>,
      <<"AC009", Text(<<2, 0, 2, 4, 0, 2>>)>>,
      <<"AC001", Text(<<2, 0, 2, 4, 2>>)>>,
      <<"AC001">> }

InputTransactionChecks ==
    \E parts \in CheckedTransactionLines : input_transaction(parts)

DefineInterestRuleChecks ==
    \E parts \in CheckedRuleLines : define_interest_rule(parts)

PrintStatementChecks ==
    \E parts \in CheckedStatementLines : print_statement(parts)

NextChecks ==
    InputTransactionChecks \/ DefineInterestRuleChecks \/ PrintStatementChecks

SpecChecks == Init /\ [][NextChecks]_vars

----------------------------------------------------------------------------
(* Properties.                                                             *)

\* The sum of the amounts of the entries of one type.
RECURSIVE SumOfType(_, _)
SumOfType(txns, type) ==
    IF txns = <<>> THEN 0
    ELSE (IF Head(txns).txn_type = type THEN Head(txns).amount ELSE 0)
         + SumOfType(Tail(txns), type)

TypesOf(acc) ==
    {acc.transactions[i].txn_type : i \in 1..Len(acc.transactions)}

\* C1: in every reachable state each account's running balance is the sum
\* of its Deposit entries plus the sum of its Interest entries minus the
\* sum of its Withdrawal entries.
C1_BalanceIsSum ==
    \A a \in DOMAIN accounts :
        accounts[a].balance =
            SumOfType(accounts[a].transactions, "D")
            + SumOfType(accounts[a].transactions, "I")
            - SumOfType(accounts[a].transactions, "W")

\* A ledger that holds a deposit, a withdrawal and posted interest.
C1_Witness ==
    \E a \in DOMAIN accounts : TypesOf(accounts[a]) = {"D", "W", "I"}

\* A line that asks to withdraw from an account that exists, with a date
\* and an amount the validation accepts.
IsWithdrawalLine(parts) ==
    /\ Len(parts) = 4
    /\ validate_date(parts[1])
    /\ upper(parts[3]) = "W"
    /\ validate_amount(parts[4])
    /\ parts[2] \in DOMAIN accounts

C2_NonNegative == \A a \in DOMAIN accounts : accounts[a].balance >= 0

C2_WholeBalance ==
    \A parts \in TransactionLines :
        ( /\ IsWithdrawalLine(parts)
          /\ Hundredths(parts[4]) = accounts[parts[2]].balance
          /\ input_transaction(parts) )
        => /\ ~result'.raised
           /\ result'.error = ""
           /\ accounts'[parts[2]].balance = 0

\* C2: the running balance of every account is >= 0 in every reachable
\* state, and a withdrawal of exactly the current balance is accepted and
\* leaves the balance at zero.
C2_NeverNegative == []C2_NonNegative /\ [][C2_WholeBalance]_vars

\* A withdrawal has just been accepted and left its account at zero.
C2_Witness ==
    /\ result.op = "input_transaction"
    /\ ~result.raised
    /\ result.error = ""
    /\ upper(result.request[3]) = "W"
    /\ accounts[result.request[2]].balance = 0

\* Amounts, in cents, tried against add_transaction directly.
WithdrawalAmounts == {1, 9, 10, 620, 621, 630}

C3_AddRejects ==
    \A a \in DOMAIN accounts : \A amount \in WithdrawalAmounts :
        amount > accounts[a].balance
        => add_transaction(accounts[a],
                           Transaction(20230626, a, "W", amount, BlankId))
           = [raised |-> TRUE, acc |-> accounts[a]]

C3_InputRejects ==
    \A parts \in TransactionLines :
        ( /\ IsWithdrawalLine(parts)
          /\ Hundredths(parts[4]) > accounts[parts[2]].balance
          /\ input_transaction(parts) )
        => /\ ~result'.raised
           /\ result'.error = "Insufficient balance for withdrawal"
           /\ Len(accounts'[parts[2]].transactions)
              = Len(accounts[parts[2]].transactions)
           /\ accounts'[parts[2]].balance = accounts[parts[2]].balance

\* C3: a withdrawal of more than the running balance, through
\* input_transaction on an existing account or through add_transaction
\* directly, is rejected as insufficient, and the ledger keeps its entry
\* count and its running balance.
C3_OverdraftRejected == []C3_AddRejects /\ [][C3_InputRejects]_vars

\* input_transaction has just refused a withdrawal for lack of funds.
C3_Witness ==
    /\ result.op = "input_transaction"
    /\ result.error = "Insufficient balance for withdrawal"
    /\ result.request[2] \in DOMAIN accounts
    /\ Hundredths(result.request[4]) > accounts[result.request[2]].balance

\* The places <<account, index>> of the entries dated date that carry an id.
IdPlaces(date) ==
    {pl \in (DOMAIN accounts) \X (1..(MaxEntries + 1)) :
        /\ pl[2] <= Len(accounts[pl[1]].transactions)
        /\ accounts[pl[1]].transactions[pl[2]].date = date
        /\ accounts[pl[1]].transactions[pl[2]].txn_id # BlankId}

AllPlaces ==
    {pl \in (DOMAIN accounts) \X (1..(MaxEntries + 1)) :
        pl[2] <= Len(accounts[pl[1]].transactions)}

EntryAt(pl) == accounts[pl[1]].transactions[pl[2]]

\* The id D-NN of the n-th transaction of a date, n < 100.
NthId(date, n) == <<date, "-", n \div 10, n % 10>>

C4_NthGetsN ==
    \A parts \in TransactionLines :
        (input_transaction(parts) /\ ~result'.raised /\ result'.error = "")
        => LET date == int(parts[1])
               after == accounts'[parts[2]].transactions
           IN  after[Len(after)].txn_id
               = NthId(date, Cardinality(IdPlaces(date)) + 1)

C4_IdsDiffer ==
    \A p \in AllPlaces : \A q \in AllPlaces :
        (p # q /\ EntryAt(p).txn_id # BlankId /\ EntryAt(q).txn_id # BlankId)
        => EntryAt(p).txn_id # EntryAt(q).txn_id

\* C4: the N-th successful input_transaction of a date, counted over all
\* accounts, gets the id <date>-NN; rejected requests and posted interest
\* use up no number, and no two entries share an id that is not blank.
C4_SequentialIds == []C4_IdsDiffer /\ [][C4_NthGetsN]_vars

\* Two accounts hold the first and the second id of one date.
C4_Witness ==
    \E p \in AllPlaces : \E q \in AllPlaces :
        /\ p[1] # q[1]
        /\ EntryAt(p).txn_id = NthId(20230601, 1)
        /\ EntryAt(q).txn_id = NthId(20230601, 2)

\* The last request was print_statement, for an account that exists, with
\* six digits whose month part is not a month.
IsBadMonthRequest(r) ==
    /\ r.op = "print_statement"
    /\ Len(r.request) = 2
    /\ Len(r.request[2]) = 6
    /\ isdigit(r.request[2])
    /\ r.request[1] \in DOMAIN accounts
    /\ int(SubSeq(r.request[2], 5, 6)) \notin 1..12

C5_Step ==
    IsBadMonthRequest(result')
    => /\ ~result'.raised
       /\ result'.error = "Invalid month. Month must be between 01 and 12"
       /\ UNCHANGED <<accounts, interest_rules, transaction_counters>>

\* C5: print_statement for an existing account and six digits whose month
\* part is not in 01..12 returns an 'Invalid month' error and leaves the
\* accounts, the rules and the id counters unchanged.
C5_InvalidMonthReported == [][C5_Step]_vars

\* C6: every request completes by returning a report or an error message;
\* none ends in an exception that leaves the request.
C6_NoException == ~result.raised

DatesOf(rules) == {rules[i].date : i \in 1..Len(rules)}

StrictlyAscending(rules) ==
    \A i \in 1..(Len(rules) - 1) : rules[i].date < rules[i + 1].date

C7_Sorted == StrictlyAscending(interest_rules)

C7_Step ==
    ( /\ result'.op = "define_interest_rule"
      /\ ~result'.raised
      /\ result'.error = "" )
    => LET parts == result'.request
           date == int(parts[1])
       IN  /\ date \in DatesOf(interest_rules)
              => Len(interest_rules') = Len(interest_rules)
           /\ date \notin DatesOf(interest_rules)
              => Len(interest_rules') = Len(interest_rules) + 1
           /\ \E i \in 1..Len(interest_rules') :
                 interest_rules'[i] = [date |-> date, rule_id |-> parts[2],
                                       rate |-> Hundredths(parts[3])]
           /\ StrictlyAscending(interest_rules')

\* C7: a valid rule for a date the timeline holds leaves its length as it
\* is and replaces that rule's id and rate; for a new date the length grows
\* by one; the timeline is always strictly ascending by date.
C7_Upsert == []C7_Sorted /\ [][C7_Step]_vars

\* A rule was just stored ahead of a later-dated rule defined before it.
C7_Witness ==
    /\ result.op = "define_interest_rule"
    /\ result.error = ""
    /\ Len(interest_rules) = 2
    /\ interest_rules[1].date = int(result.request[1])
    /\ interest_rules[1].rule_id = "RULE02"

\* rate_effective_on: the rate of the latest rule dated on or before the
\* date, 0 when there is none.
RateEffectiveOn(rules, date) ==
    LET inForce == {i \in 1..Len(rules) : rules[i].date <= date}
    IN  IF inForce = {} THEN 0
        ELSE rules[CHOOSE i \in inForce :
                      \A j \in inForce : rules[j].date <= rules[i].date].rate

\* The sum over the days 1..d of the month of balance x rate, counting
\* the days whose balance and rate are both > 0.
RECURSIVE SumOfProducts(_, _, _, _, _)
SumOfProducts(acc, rules, year, month, d) ==
    IF d = 0 THEN 0
    ELSE LET date == year * 10000 + month * 100 + d
             balance == get_balance_at_date(acc, date)
             rate == RateEffectiveOn(rules, date)
         IN  SumOfProducts(acc, rules, year, month, d - 1)
             + (IF balance > 0 /\ rate > 0 THEN balance * rate ELSE 0)

\* The exact sum of balance x rate / 100 / 365 over the month, rounded half
\* up to the cent: balances are in cents and rates in hundredths of a
\* percent, so the sum in cents is the sum of products over 365 * 10^4.
ExactInterest(acc, rules, year, month) ==
    (2 * SumOfProducts(acc, rules, year, month, DaysInMonth(year, month))
     + DaysPerYear * 10000) \div (2 * DaysPerYear * 10000)

ScenarioAccount ==
    [account_id |-> "AC001", balance |-> 3000,
     transactions |->
        << Transaction(20230601, "AC001", "D", 15000, NthId(20230601, 1)),
           Transaction(20230626, "AC001", "W", 2000, NthId(20230626, 1)),
           Transaction(20230626, "AC001", "W", 10000, NthId(20230626, 2)) >>]

ScenarioRules ==
    << InterestRule(20230520, "RULE02", 190),
       InterestRule(20230615, "RULE03", 220) >>

C8_Scenario == MonthInterest(ScenarioAccount, ScenarioRules, 2023, 6) = 22

\* C8: calculate_interest is the sum over the days of the month of
\* balance_as_of(d) x rate_effective_on(d) / 100 / 365, over the days whose
\* balance and rate are > 0, rounded half up to two decimals; the scenario
\* of the specification gives 0.22.
C8_ExactAccrual ==
    /\ C8_Scenario
    /\ \A a \in DOMAIN accounts : \A month \in {6, 7} :
          calculate_interest(a, Text(<<2, 0, 2, 3, 0, month>>)).value
          = ExactInterest(accounts[a], interest_rules, 2023, month)

\* The last calendar day of the months statements are asked for.
LastDayOf(year_month) ==
    IF year_month = 202306 THEN 20230630
    ELSE IF year_month = 202307 THEN 20230731
    ELSE 0

InMonth(txns, year_month) ==
    {i \in 1..Len(txns) : txns[i].date \div 100 = year_month}

C9_Step ==
    ( /\ result'.op = "print_statement"
      /\ ~result'.raised
      /\ result'.error = "" )
    => LET a == result'.request[1]
           year_month == int(result'.request[2])
           accrued == calculate_interest(a, result'.request[2]).value
           before == accounts[a]
           after == accounts'[a]
       IN  IF accrued > 0
           THEN /\ after.transactions
                   = Append(before.transactions,
                            [date |-> LastDayOf(year_month), account |-> a,
                             txn_type |-> "I", amount |-> accrued,
                             txn_id |-> BlankId])
                /\ after.balance = before.balance + accrued
                /\ Len(result'.rows)
                   = Cardinality(InMonth(before.transactions, year_month)) + 1
           ELSE /\ after = before
                /\ Len(result'.rows)
                   = Cardinality(InMonth(before.transactions, year_month))

\* C9: a successful print_statement whose accrued interest is > 0 appends
\* exactly one entry to the account's ledger (Interest, dated the last day
\* of the month, the accrued amount, blank id) and adds that amount to the
\* running balance; when the interest rounds to 0 the ledger and balance
\* are unchanged and the statement has no interest row.
C9_InterestPosted == [][C9_Step]_vars

\* A statement has posted interest dated the 31st of July.
C9_Witness ==
    /\ result.op = "print_statement"
    /\ result.interest > 0
    /\ LET txns == accounts[result.request[1]].transactions
       IN  /\ txns[Len(txns)].txn_type = "I"
           /\ txns[Len(txns)].date = 20230731

\* The request r was a print_statement that posted interest.
PostedInterest(r) ==
    r.op = "print_statement" /\ ~r.raised /\ r.error = "" /\ r.interest > 0

InterestEntriesOn(txns, date) ==
    Cardinality({i \in 1..Len(txns) :
                    txns[i].txn_type = "I" /\ txns[i].date = date})

\* The ledger before the one entry the last statement appended.
Front(txns) == SubSeq(txns, 1, Len(txns) - 1)

C10_Step ==
    ( /\ PostedInterest(result)
      /\ result'.op = "print_statement"
      /\ result'.request = result.request )
    => LET a == result.request[1]
           last == LastDayOf(int(result.request[2]))
       IN  /\ PostedInterest(result')
           /\ InterestEntriesOn(accounts'[a].transactions, last)
              = InterestEntriesOn(Front(accounts[a].transactions), last) + 2

\* C10: print_statement twice in a row for one account and month, with
\* accrued interest > 0, posts interest twice: the ledger then holds two
\* more Interest entries dated the last day of the month than before.
C10_PostedTwice == [][C10_Step]_vars

\* A statement has posted interest onto a ledger that ended with the
\* interest of the same day.
C10_Witness ==
    /\ PostedInterest(result)
    /\ LET txns == accounts[result.request[1]].transactions
           last == LastDayOf(int(result.request[2]))
       IN  /\ Len(txns) >= 3
           /\ txns[Len(txns)].txn_type = "I"
           /\ txns[Len(txns)].date = last
           /\ txns[Len(txns) - 1].txn_type = "I"
           /\ txns[Len(txns) - 1].date = last

\* The request r was a well-formed withdrawal from an account the service
\* does not hold.
IsNewAccountWithdrawal(r) ==
    /\ r.op = "input_transaction"
    /\ Len(r.request) = 4
    /\ validate_date(r.request[1])
    /\ upper(r.request[3]) = "W"
    /\ validate_amount(r.request[4])
    /\ r.request[2] \notin DOMAIN accounts

C11_Step ==
    IsNewAccountWithdrawal(result')
    => /\ ~result'.raised
       /\ result'.error = "Cannot withdraw from new account with zero balance"
       /\ DOMAIN accounts' = DOMAIN accounts
       /\ transaction_counters' = transaction_counters

\* C11: a withdrawal naming an account that does not exist is rejected with
\* 'Cannot withdraw from new account' and creates no account: the set of
\* account ids and the id counters are the same before and after.
C11_NoAccountCreated == [][C11_Step]_vars

\* A withdrawal from an account the service does not hold was just refused,
\* while another account exists.
C11_Witness ==
    /\ result.op = "input_transaction"
    /\ result.error = "Cannot withdraw from new account with zero balance"
    /\ result.request[2] \notin DOMAIN accounts
    /\ DOMAIN accounts # {}

\* The dates balances are asked for: before, between and after the dates
\* entries carry.
QueryDates ==
    {20230531, 20230601, 20230602, 20230615, 20230630, 20230701, 20230731}

\* Withdrawal negative, Deposit and Interest positive.
SignedAmount(transaction) ==
    IF transaction.txn_type = "W" THEN 0 - transaction.amount
    ELSE IF transaction.txn_type \in {"D", "I"} THEN transaction.amount
    ELSE 0

\* The signed sum of the entries of txns at the places in idx.
RECURSIVE SignedSum(_, _)
SignedSum(txns, idx) ==
    IF idx = {} THEN 0
    ELSE LET i == CHOOSE x \in idx : TRUE
         IN  SignedAmount(txns[i]) + SignedSum(txns, idx \ {i})

\* The places of the entries dated after lo and on or before hi.
DatedIn(txns, lo, hi) ==
    {i \in 1..Len(txns) : lo < txns[i].date /\ txns[i].date <= hi}

\* C12: get_balance_at_date(d) is the signed sum of exactly the entries
\* dated <= d, whatever the order of insertion; 0 when there is none; and
\* for d1 < d2 the results differ by the signed sum of the entries dated in
\* (d1, d2].
C12_BalanceAtDate ==
    \A a \in DOMAIN accounts :
        LET acc == accounts[a]
            txns == acc.transactions
        IN  /\ \A d \in QueryDates :
                  /\ get_balance_at_date(acc, d) = SignedSum(txns, DatedIn(txns, 0, d))
                  /\ DatedIn(txns, 0, d) = {} => get_balance_at_date(acc, d) = 0
            /\ \A d1, d2 \in QueryDates :
                  d1 < d2
                  => get_balance_at_date(acc, d2) - get_balance_at_date(acc, d1)
                     = SignedSum(txns, DatedIn(txns, d1, d2))

\* A ledger holds a back-dated entry after a later-dated one, and the
\* balance at the earlier date leaves the later entry out.
C12_Witness ==
    \E a \in DOMAIN accounts :
        LET acc == accounts[a]
            txns == acc.transactions
        IN  /\ Len(txns) >= 2
            /\ txns[1].date = 20230602
            /\ txns[2].date = 20230601
            /\ get_balance_at_date(acc, 20230601) = txns[2].amount
            /\ get_balance_at_date(acc, 20230531) = 0

\* The request r was a print_statement that returned a statement.
IsStatement(r) == r.op = "print_statement" /\ ~r.raised /\ r.error = ""

\* The places, in ledger order, of the first n entries that are dated in
\* the month.
RECURSIVE InMonthPlaces(_, _, _)
InMonthPlaces(txns, n, year_month) ==
    IF n = 0 THEN <<>>
    ELSE IF txns[n].date \div 100 = year_month
    THEN Append(InMonthPlaces(txns, n - 1, year_month), n)
    ELSE InMonthPlaces(txns, n - 1, year_month)

\* The balance carried into the month: the signed sum of the entries dated
\* before its first day.
CarriedIn(txns, year_month) ==
    SignedSum(txns, {i \in 1..Len(txns) : txns[i].date < year_month * 100 + 1})

C13_Step ==
    IsStatement(result')
    => LET txns == accounts'[result'.request[1]].transactions
           year_month == int(result'.request[2])
           places == InMonthPlaces(txns, Len(txns), year_month)
           rows == result'.rows
       IN  /\ Len(rows) = Len(places)
           /\ \A k \in 1..Len(rows) :
                 /\ rows[k].date = txns[places[k]].date
                 /\ rows[k].amount = txns[places[k]].amount
                 /\ rows[k].balance
                    = CarriedIn(txns, year_month)
                      + SignedSum(txns, {places[j] : j \in 1..k})

\* C13: the balance on the k-th row of a statement is the balance carried
\* in (the signed sum of the entries dated before the first day of the
\* month, whatever their place in the ledger) plus the signed sum of the
\* first k entries of the month in ledger order; entries dated after the
\* month affect no row.
C13_RowBalances == [][C13_Step]_vars

\* A statement of July has two rows on a balance carried in from June.
C13_Witness ==
    /\ IsStatement(result)
    /\ int(result.request[2]) = 202307
    /\ Len(result.rows) = 2
    /\ result.rows[1].balance > result.rows[1].amount

\* C14: the rows of every statement, the interest row included, are in
\* chronological order: the dates of consecutive rows never decrease.
C14_Chronological ==
    IsStatement(result)
    => \A k \in 1..(Len(result.rows) - 1) :
          result.rows[k].date <= result.rows[k + 1].date

\* The days of the month year_month.
DaysOf(year_month) ==
    {year_month * 100 + d : d \in 1..(LastDayOf(year_month) % 100)}

\* The statement just returned was asked of a ledger with no entry dated in
\* the month, a positive balance carried in, and a rate > 0 in force on
\* every day of the month.
IsCarriedOnlyStatement(r) ==
    /\ IsStatement(r)
    /\ LET txns == accounts[r.request[1]].transactions
           year_month == int(r.request[2])
       IN  /\ InMonth(txns, year_month) = {}
           /\ CarriedIn(txns, year_month) > 0
           /\ \A d \in DaysOf(year_month) : RateEffectiveOn(interest_rules, d) > 0

\* The one row of the statement is the interest row on the carried balance.
IsInterestRowOnCarried(r) ==
    LET txns == accounts[r.request[1]].transactions
        year_month == int(r.request[2])
    IN  /\ Len(r.rows) = 1
        /\ r.rows[1].txn_type = "I"
        /\ r.rows[1].date = LastDayOf(year_month)
        /\ r.rows[1].amount > 0
        /\ r.rows[1].balance = CarriedIn(txns, year_month) + r.rows[1].amount

C15_AsClaimedStep ==
    IsCarriedOnlyStatement(result') => IsInterestRowOnCarried(result')

\* C15 as stated: with no entry in the month, a positive carried balance
\* and a rate > 0, the statement has an interest row with a nonzero amount.
C15_AsClaimed == [][C15_AsClaimedStep]_vars

C15_Step ==
    IsCarriedOnlyStatement(result')
    => IF result'.interest > 0
       THEN /\ IsInterestRowOnCarried(result')
            /\ result'.rows[1].amount = result'.interest
       ELSE result'.rows = <<>>

\* C15: print_statement for an account with no entry dated in the month, a
\* positive balance carried in and a rate > 0 during the month reports one
\* interest row, of a nonzero amount and with the carried balance plus that
\* interest as its balance, when the month's interest rounds to 0.01 or
\* more; when it rounds to 0.00 the statement has no row.
C15_CarriedInterest == [][C15_Step]_vars

\* A statement of July on a ledger without July entries has the interest
\* row as its only row.
C15_Witness ==
    /\ IsStatement(result)
    /\ int(result.request[2]) = 202307
    /\ Len(result.rows) = 1
    /\ result.rows[1].txn_type = "I"
    /\ result.rows[1].balance > result.rows[1].amount
    /\ Cardinality(InMonth(accounts[result.request[1]].transactions, 202307)) = 1

\* C19: the rate the accrual uses for a day is the rate of the rule with
\* the greatest effective date on or before the day, in whatever order the
\* rules were defined or replaced; with no such rule the rate is 0 and a
\* month without a rule in force accrues nothing.
C19_RateInForce ==
    /\ \A d \in QueryDates :
          RateLoop(interest_rules, Len(interest_rules), d)
          = RateEffectiveOn(interest_rules, d)
    /\ \A a \in DOMAIN accounts : \A year_month \in {202306, 202307} :
          RateEffectiveOn(interest_rules, LastDayOf(year_month)) = 0
          => MonthInterest(accounts[a], interest_rules,
                           year_month \div 100, year_month % 100) = 0

\* The rule of the earlier date was defined after the rule of the later
\* date, and the rate in force at the end of June is the later rule's.
C19_Witness ==
    /\ result.op = "define_interest_rule"
    /\ result.error = ""
    /\ Len(interest_rules) = 2
    /\ interest_rules[1].date = int(result.request[1])
    /\ interest_rules[1].rate # interest_rules[2].rate
    /\ RateLoop(interest_rules, 2, 20230630) = interest_rules[2].rate
    /\ RateLoop(interest_rules, 2, 20230601) = interest_rules[1].rate

\* The amount text t is a number > 0 with at most two fractional digits.
IsCentsAmount(t) ==
    /\ t # NotADecimal
    /\ ~t.neg
    /\ t.coef > 0
    /\ t.exp >= -2

\* Every entry of every ledger has an amount > 0 (amounts are held in
\* cents).
C16_AmountsPositive ==
    \A a \in DOMAIN accounts :
        \A i \in 1..Len(accounts[a].transactions) :
            /\ accounts[a].transactions[i].amount \in Nat
            /\ accounts[a].transactions[i].amount > 0

\* A request with four fields, a valid date and a valid type is refused for
\* its amount exactly when the amount is zero, negative, or has more than
\* two fractional digits, or is no number; an accepted entry carries the
\* amount of the request.
C16_Step ==
    ( /\ result'.op = "input_transaction"
      /\ Len(result'.request) = 4
      /\ validate_date(result'.request[1])
      /\ upper(result'.request[3]) \in {"D", "W"} )
    => LET t == result'.request[4]
       IN  /\ ~IsCentsAmount(t)
              <=> result'.error = "Invalid amount, Must be positive with max 2 decimal places"
           /\ result'.error = ""
              => LET txns == accounts'[result'.request[2]].transactions
                 IN  txns[Len(txns)].amount * 10^(0 - t.exp) = t.coef * 100

\* C16: every entry of every ledger, user transactions and posted interest
\* alike, has an amount that is > 0 and a multiple of 0.01; input_transaction
\* rejects amounts that are zero, negative or have more than two fractional
\* digits.
C16_AmountsValid == []C16_AmountsPositive /\ [][C16_Step]_vars

\* An amount of zero was just refused while the ledger holds a deposit and
\* posted interest.
C16_Witness ==
    /\ result.op = "input_transaction"
    /\ result.error = "Invalid amount, Must be positive with max 2 decimal places"
    /\ result.request[4] = Amt0
    /\ \E a \in DOMAIN accounts :
          \E i \in 1..Len(accounts[a].transactions) :
              accounts[a].transactions[i].txn_type = "I"

\* Every rule of the timeline has a rate strictly between 0 and 100
\* (rates are held in hundredths of a percent).
C17_RatesInRange ==
    \A i \in 1..Len(interest_rules) :
        interest_rules[i].rate > 0 /\ interest_rules[i].rate < 10000

\* The rate text t is a number <= 0 or >= 100.
IsRateOutOfRange(t) ==
    /\ t # NotADecimal
    /\ \/ t.neg
       \/ t.coef = 0
       \/ t.coef * 10^(t.exp + 2) >= 10000

C17_Step ==
    ( /\ result'.op = "define_interest_rule"
      /\ Len(result'.request) = 3
      /\ validate_date(result'.request[1])
      /\ IsRateOutOfRange(result'.request[3]) )
    => /\ ~result'.raised
       /\ result'.error = "Interest rate must be between 0 and 100"
       /\ interest_rules' = interest_rules

\* C17: every rule of the timeline has a rate strictly between 0 and 100;
\* define_interest_rule with a rate <= 0 or >= 100, exactly 0 and exactly
\* 100 included, returns an invalid-rate error and leaves the timeline as
\* it is.
C17_RatesValid == []C17_RatesInRange /\ [][C17_Step]_vars

\* A rate of exactly 100 was just refused while the timeline holds a rule.
C17_Witness ==
    /\ result.op = "define_interest_rule"
    /\ result.error = "Interest rate must be between 0 and 100"
    /\ result.request[3] = Rate100pc
    /\ Len(interest_rules) >= 1

\* The days of the months of a common year.
MonthLengths == <<31, 28, 31, 30, 31, 30, 31, 31, 30, 31, 30, 31>>

\* The calendar dates of 2023 and of 2024, a leap year, as YYYYMMDD numbers.
CalendarDates ==
    UNION { {y * 10000 + m * 100 + d :
                d \in 1..(MonthLengths[m] + (IF y = 2024 /\ m = 2 THEN 1 ELSE 0))} :
            y \in {2023, 2024}, m \in 1..12 }

\* The token t is eight digits that spell a calendar date.
IsCalendarDate(t) ==
    /\ Len(t) = 8
    /\ \A i \in 1..Len(t) :
          t[i] \in {"0", "1", "2", "3", "4", "5", "6", "7", "8", "9"}
    /\ int(t) \in CalendarDates

DateTokens ==
    {D20230101, D20230601, D20230602, D20230615, D20240229, D20240230,
     D20230631, D2023060}

C18_Tokens ==
    /\ validate_date(D20240229)
    /\ ~validate_date(D20240230)
    /\ ~validate_date(D20230631)
    /\ ~validate_date(D2023060)
    /\ \A t \in DateTokens : validate_date(t) <=> IsCalendarDate(t)

\* Every entry a user entered and every rule carries a calendar date.
C18_DatesReal ==
    /\ \A a \in DOMAIN accounts :
          \A i \in 1..Len(accounts[a].transactions) :
              accounts[a].transactions[i].txn_type \in {"D", "W"}
              => accounts[a].transactions[i].date \in CalendarDates
    /\ \A i \in 1..Len(interest_rules) :
          interest_rules[i].date \in CalendarDates

\* A request with the right number of fields is refused for its date
\* exactly when the date token is no calendar date.
C18_Step ==
    /\ ( result'.op = "input_transaction" /\ Len(result'.request) = 4 )
       => ( result'.error = "Invalid format. Use YYYYMMDD"
            <=> ~IsCalendarDate(result'.request[1]) )
    /\ ( result'.op = "define_interest_rule" /\ Len(result'.request) = 3 )
       => ( result'.error = "Invalid date format. Use YYYYMMDD"
            <=> ~IsCalendarDate(result'.request[1]) )

\* C18: validate_date accepts a token exactly when it is eight digits
\* YYYYMMDD that denote a calendar date, leap years honoured (20240229
\* accepted; 20240230, 20230631 and a token of seven digits rejected); so
\* every entry a user entered and every rule carries a calendar date.
C18_CalendarDates == [](C18_Tokens /\ C18_DatesReal) /\ [][C18_Step]_vars

\* 30 February 2024 was just refused while a ledger holds an entry and the
\* timeline a rule dated 29 February 2024.
C18_Witness ==
    /\ result.op = "input_transaction"
    /\ result.error = "Invalid format. Use YYYYMMDD"
    /\ result.request[1] = D20240230
    /\ \E a \in DOMAIN accounts :
          \E i \in 1..Len(accounts[a].transactions) :
              accounts[a].transactions[i].date = 20240229
    /\ \E i \in 1..Len(interest_rules) : interest_rules[i].date = 20240229

\* The error of the first check of input_transaction that the request
\* fails, in the order field count, date, type, amount, withdrawal from an
\* account that does not exist, insufficient balance; "" when it passes all.
FirstFailure(parts) ==
    IF Len(parts) # 4
    THEN "Invalid format. Expected: <Date> <Account> <Type> <Amount>"
    ELSE IF ~IsCalendarDate(parts[1])
    THEN "Invalid format. Use YYYYMMDD"
    ELSE IF parts[3] \notin {"D", "W", "d", "w"}
    THEN "Invalid transaction type. Use D for depositt or W for withdrawal"
    ELSE IF ~IsCentsAmount(parts[4])
    THEN "Invalid amount, Must be positive with max 2 decimal places"
    ELSE IF parts[3] \in {"W", "w"} /\ parts[2] \notin DOMAIN accounts
    THEN "Cannot withdraw from new account with zero balance"
    ELSE IF /\ parts[3] \in {"W", "w"}
            /\ accounts[parts[2]].balance < parts[4].coef * 10^(parts[4].exp + 2)
    THEN "Insufficient balance for withdrawal"
    ELSE ""

C20_Step ==
    result'.op = "input_transaction"
    => /\ ~result'.raised
       /\ result'.error = FirstFailure(result'.request)

\* C20: input_transaction applies its checks in the order field count,
\* date, type, amount, withdrawal from an account that does not exist,
\* insufficient balance, and the outcome is the error of the first check
\* that fails.
C20_FirstFailureWins == [][C20_Step]_vars

\* A request whose date and type are both bad was just refused for its
\* date, while an account exists.
C20_Witness ==
    /\ result.op = "input_transaction"
    /\ result.error = "Invalid format. Use YYYYMMDD"
    /\ Len(result.request) = 4
    /\ upper(result.request[3]) \notin {"D", "W"}
    /\ DOMAIN accounts # {}

\* The sequence s is the beginning of the sequence t.
IsPrefix(s, t) == Len(s) <= Len(t) /\ SubSeq(t, 1, Len(s)) = s

C21_Step ==
    /\ DOMAIN accounts \subseteq DOMAIN accounts'
    /\ \A a \in DOMAIN accounts :
          IsPrefix(accounts[a].transactions, accounts'[a].transactions)
    /\ \A d \in DOMAIN transaction_counters :
          /\ d \in DOMAIN transaction_counters'
          /\ transaction_counters'[d] >= transaction_counters[d]
    /\ Len(interest_rules') >= Len(interest_rules)

\* C21: across every step the state only grows: no account id is lost,
\* each ledger after the step begins with the ledger before it, no id
\* counter decreases, and the number of rules never decreases.
C21_OnlyGrows == [][C21_Step]_vars

\* Two accounts, a ledger of two entries, a counter at 2 and two rules.
C21_Witness ==
    /\ Cardinality(DOMAIN accounts) = 2
    /\ \E a \in DOMAIN accounts : Len(accounts[a].transactions) = 2
    /\ \E d \in DOMAIN transaction_counters : transaction_counters[d] = 2
    /\ Len(interest_rules) = 2

C22_Step ==
    ( ~result'.raised /\ result'.error # "" )
    => UNCHANGED <<accounts, interest_rules, transaction_counters>>

\* C22: every request that returns an error, from input_transaction,
\* define_interest_rule or print_statement and for any failing check,
\* leaves the account map, every ledger and balance, the rule timeline and
\* every id counter as they were.
C22_ErrorsChangeNothing == [][C22_Step]_vars

\* A withdrawal was just refused for its balance by a service that holds
\* an account, a rule and a counter.
C22_Witness ==
    /\ result.op = "input_transaction"
    /\ result.error = "Insufficient balance for withdrawal"
    /\ DOMAIN accounts # {}
    /\ DOMAIN transaction_counters # {}
    /\ Len(interest_rules) >= 1

\* C23: for every account and every date d the date-indexed balance
\* get_balance_at_date(d) is >= 0, also when a withdrawal is entered with a
\* date earlier than the deposits that fund it.
C23_DateBalanceNonNegative ==
    \A a \in DOMAIN accounts :
        \A d \in {20230531, 20230601, 20230630, 20240228, 20240229} :
            get_balance_at_date(accounts[a], d) >= 0

\* The months interest is asked for, each with the number of its days.
AccrualMonths == {<<202306, 30>>, <<202402, 29>>}

\* C24: calculate_interest never returns a negative amount, for any month:
\* a month whose every end-of-day balance is <= 0 accrues nothing, and no
\* Interest entry of a ledger is negative or zero.
C24_InterestNeverNegative ==
    \A a \in DOMAIN accounts :
        /\ \A m \in AccrualMonths :
              LET interest == calculate_interest(a, Text(DecDigits(m[1])))
              IN  /\ ~interest.raised
                  /\ interest.value >= 0
                  /\ (\A d \in 1..m[2] :
                         get_balance_at_date(accounts[a], m[1] * 100 + d) <= 0)
                     => interest.value = 0
        /\ \A i \in 1..Len(accounts[a].transactions) :
              accounts[a].transactions[i].txn_type = "I"
              => accounts[a].transactions[i].amount > 0

\* A ledger whose balance is negative through June 2023, under a rule in
\* force since 1 June 2023, and that holds posted interest.
C24_Witness ==
    \E a \in DOMAIN accounts :
        /\ get_balance_at_date(accounts[a], 20230601) < 0
        /\ get_balance_at_date(accounts[a], 20230630) < 0
        /\ \E i \in 1..Len(interest_rules) : interest_rules[i].date = 20230601
        /\ \E i \in 1..Len(accounts[a].transactions) :
              accounts[a].transactions[i].txn_type = "I"

C25_Step ==
    PostedInterest(result')
    => LET acc == accounts'[result'.request[1]]
           last == LastDayOf(int(result'.request[2]))
           rows == result'.rows
       IN  /\ rows[Len(rows)].txn_type = "I"
           /\ rows[Len(rows)].balance = get_balance_at_date(acc, last)

\* C25: after a print_statement that posts interest, the balance on the
\* interest row equals get_balance_at_date(last day of the month) on the
\* updated ledger, whatever the ledger holds: entries dated after the month
\* and interest posted by earlier statements included.
C25_InterestRowBalance == [][C25_Step]_vars

\* The statement of June posted interest onto a ledger that holds the
\* interest of July.
C25_Witness ==
    /\ PostedInterest(result)
    /\ int(result.request[2]) = 202306
    /\ LET txns == accounts[result.request[1]].transactions
       IN  \E i \in 1..Len(txns) :
              txns[i].txn_type = "I" /\ txns[i].date = 20230731

\* The request r returned its report.
Succeeded(r) == ~r.raised /\ r.error = ""

\* The accounts other than account are as they were, and none was added
\* but account.
OnlyAccountChanged(account) ==
    /\ DOMAIN accounts' = DOMAIN accounts \cup {account}
    /\ \A b \in DOMAIN accounts \ {account} : accounts'[b] = accounts[b]

C26_Step ==
    /\ ( result'.op = "input_transaction" /\ Succeeded(result') )
       => LET date == int(result'.request[1])
          IN  /\ interest_rules' = interest_rules
              /\ OnlyAccountChanged(result'.request[2])
              /\ DOMAIN transaction_counters'
                 = DOMAIN transaction_counters \cup {date}
              /\ \A d \in DOMAIN transaction_counters \ {date} :
                    transaction_counters'[d] = transaction_counters[d]
    /\ ( result'.op = "define_interest_rule" /\ Succeeded(result') )
       => /\ accounts' = accounts
          /\ transaction_counters' = transaction_counters
    /\ ( result'.op = "print_statement" /\ Succeeded(result') )
       => /\ interest_rules' = interest_rules
          /\ transaction_counters' = transaction_counters
          /\ DOMAIN accounts' = DOMAIN accounts
          /\ OnlyAccountChanged(result'.request[1])

\* C26: each successful request changes only its own part of the state:
\* input_transaction the named account and the counter of the transaction's
\* date; define_interest_rule the rule timeline; print_statement the named
\* account, never the timeline, the counters or another account.
C26_Frame == [][C26_Step]_vars

\* A transaction was just accepted by a service that holds two accounts,
\* counters of two dates and a rule.
C26_Witness ==
    /\ result.op = "input_transaction"
    /\ Succeeded(result)
    /\ Cardinality(DOMAIN accounts) = 2
    /\ Cardinality(DOMAIN transaction_counters) = 2
    /\ Len(interest_rules) >= 1

====
